---- MODULE Spec2Model ----
(***************************************************************************)
(* The three tool handlers of Python/tools: manage_asset, manage_editor    *)
(* and manage_gameobject.  Each builds a parameter mapping, strips the     *)
(* None entries, calls send_command on the Unity connection and hands a    *)
(* result back to its caller.                                              *)
(*                                                                         *)
(* Python values are records [t, v]: t is the Python type and v a sequence *)
(* of strings.  A str holds its text in v: caller and remote strings one   *)
(* character per element (so lower(), replace() and endswith() work on     *)
(* characters), string literals of messages as one element.  Text(v) is    *)
(* the text itself, whatever the split.  A dict is a function from its     *)
(* keys to Python values.  Keyword arguments are a function whose domain   *)
(* is the set of parameters the caller passed.                             *)
(***************************************************************************)
EXTENDS Integers, Sequences, FiniteSets, TLC

\* ---------------------------------------------------------------- bounds
\* Invocations that may be in flight at once on the event loop.
MaxCalls == 2
\* Threads of the default executor that run offloaded send_command calls.
MaxWorkers == 1

Calls == 1..MaxCalls

\* ---------------------------------------------------------- Python values
PyNone == [t |-> "None", v |-> <<>>]
PyStr(s) == [t |-> "str", v |-> s]
PyBool(b) == [t |-> "bool", v |-> <<IF b THEN "True" ELSE "False">>]
PyInt(digits) == [t |-> "int", v |-> digits]
PyDict(items) == [t |-> "dict", v |-> items]
PyList(items) == [t |-> "list", v |-> items]

\* bool(x) as Python's `if x` / `not x` computes it.
Truthy(x) ==
    CASE x.t = "None" -> FALSE
      [] x.t = "bool" -> x.v = <<"True">>
      [] x.t = "int" -> x.v # <<"0">>
      [] OTHER -> x.v # <<>>

RECURSIVE Text(_)
Text(s) == IF s = <<>> THEN "" ELSE Head(s) \o Text(Tail(s))

\* str(x) inside an f-string.
Format(x) == IF x.t = "None" THEN <<"N", "o", "n", "e">> ELSE x.v

UpperToLower ==
    [A |-> "a", B |-> "b", C |-> "c", D |-> "d", E |-> "e", F |-> "f", G |-> "g",
     H |-> "h", I |-> "i", J |-> "j", K |-> "k", L |-> "l", M |-> "m", N |-> "n",
     O |-> "o", P |-> "p", Q |-> "q", R |-> "r", S |-> "s", T |-> "t", U |-> "u",
     V |-> "v", W |-> "w", X |-> "x", Y |-> "y", Z |-> "z"]

\* str.lower()
Lower(s) == [i \in 1..Len(s) |-> IF s[i] \in DOMAIN UpperToLower THEN UpperToLower[s[i]] ELSE s[i]]

\* str.replace(old, new) for one-character old and new.
Replace(s, old, new) == [i \in 1..Len(s) |-> IF s[i] = old THEN new ELSE s[i]]

\* str.endswith(suffix)
EndsWith(s, suffix) ==
    /\ Len(s) >= Len(suffix)
    /\ SubSeq(s, Len(s) - Len(suffix) + 1, Len(s)) = suffix

DotPrefab == <<".", "p", "r", "e", "f", "a", "b">>

\* ------------------------------------------------------------------ dicts
EmptyDict == [k \in {} |-> PyNone]

\* dict.get(key, default)
Get(d, key, default) == IF key \in DOMAIN d THEN d[key] ELSE default

\* The comprehension without its filter: None entries stay.
StripNoneKeepsNone(d) == d

\* {k: v for k, v in d.items() if v is not None}
StripNone(d) == [k \in {x \in DOMAIN d : d[x] # PyNone} |-> d[k]]

\* d.pop(key, None)
Pop(d, key) == [k \in DOMAIN d \ {key} |-> d[k]]

\* d[key] = value
Put(d, key, value) == [k \in DOMAIN d \cup {key} |-> IF k = key THEN value ELSE d[k]]

\* ------------------------------------------------- signatures of the tools
\* wire key |-> the parameter it is filled from and that parameter's default
\* (a parameter without a default is always passed: the call does not bind
\* otherwise).
AssetTable ==
    [action |-> [param |-> "action", default |-> PyNone],
     path |-> [param |-> "path", default |-> PyNone],
     assetType |-> [param |-> "asset_type", default |-> PyNone],
     properties |-> [param |-> "properties", default |-> PyNone],
     destination |-> [param |-> "destination", default |-> PyNone],
     generatePreview |-> [param |-> "generate_preview", default |-> PyBool(FALSE)],
     searchPattern |-> [param |-> "search_pattern", default |-> PyNone],
     filterType |-> [param |-> "filter_type", default |-> PyNone],
     filterDateAfter |-> [param |-> "filter_date_after", default |-> PyNone],
     pageSize |-> [param |-> "page_size", default |-> PyNone],
     pageNumber |-> [param |-> "page_number", default |-> PyNone]]

EditorTable ==
    [action |-> [param |-> "action", default |-> PyNone],
     waitForCompletion |-> [param |-> "wait_for_completion", default |-> PyNone],
     toolName |-> [param |-> "tool_name", default |-> PyNone],
     tagName |-> [param |-> "tag_name", default |-> PyNone],
     layerName |-> [param |-> "layer_name", default |-> PyNone]]

DefaultPrefabFolder == PyStr(<<"A", "s", "s", "e", "t", "s", "/", "P", "r", "e", "f", "a", "b", "s">>)

GameObjectTable ==
    [action |-> [param |-> "action", default |-> PyNone],
     target |-> [param |-> "target", default |-> PyNone],
     searchMethod |-> [param |-> "search_method", default |-> PyNone],
     name |-> [param |-> "name", default |-> PyNone],
     tag |-> [param |-> "tag", default |-> PyNone],
     parent |-> [param |-> "parent", default |-> PyNone],
     position |-> [param |-> "position", default |-> PyNone],
     rotation |-> [param |-> "rotation", default |-> PyNone],
     scale |-> [param |-> "scale", default |-> PyNone],
     componentsToAdd |-> [param |-> "components_to_add", default |-> PyNone],
     primitiveType |-> [param |-> "primitive_type", default |-> PyNone],
     saveAsPrefab |-> [param |-> "save_as_prefab", default |-> PyBool(FALSE)],
     prefabPath |-> [param |-> "prefab_path", default |-> PyNone],
     prefabFolder |-> [param |-> "prefab_folder", default |-> DefaultPrefabFolder],
     setActive |-> [param |-> "set_active", default |-> PyNone],
     layer |-> [param |-> "layer", default |-> PyNone],
     componentsToRemove |-> [param |-> "components_to_remove", default |-> PyNone],
     componentProperties |-> [param |-> "component_properties", default |-> PyNone],
     searchTerm |-> [param |-> "search_term", default |-> PyNone],
     findAll |-> [param |-> "find_all", default |-> PyBool(FALSE)],
     searchInChildren |-> [param |-> "search_in_children", default |-> PyBool(FALSE)],
     searchInactive |-> [param |-> "search_inactive", default |-> PyBool(FALSE)],
     componentName |-> [param |-> "component_name", default |-> PyNone]]

\* The value a parameter is bound to in the body: the argument, else the default.
Bound(table, wire, kwargs) ==
    IF table[wire].param \in DOMAIN kwargs THEN kwargs[table[wire].param] ELSE table[wire].default

\* ------------------------------------------------------------ manage_asset
\* if properties is None: properties = {}
AssetProperties(kwargs) ==
    IF Bound(AssetTable, "properties", kwargs) = PyNone
    THEN PyDict(<<>>)
    ELSE Bound(AssetTable, "properties", kwargs)

AssetRawParams(kwargs) ==
    [w \in DOMAIN AssetTable |->
        CASE w = "action" -> PyStr(Lower(Bound(AssetTable, "action", kwargs).v))
          [] w = "properties" -> AssetProperties(kwargs)
          [] OTHER -> Bound(AssetTable, w, kwargs)]

AssetParams(kwargs) == StripNone(AssetRawParams(kwargs))

\* ----------------------------------------------------------- manage_editor
EditorRawParams(kwargs) == [w \in DOMAIN EditorTable |-> Bound(EditorTable, w, kwargs)]

EditorParams(kwargs) == StripNone(EditorRawParams(kwargs))

\* ------------------------------------------------------- manage_gameobject
GameObjectRawParams(kwargs) ==
    [w \in DOMAIN GameObjectTable |-> Bound(GameObjectTable, w, kwargs)]

GameObjectParams(kwargs) == StripNone(GameObjectRawParams(kwargs))

Create == PyStr(<<"c", "r", "e", "a", "t", "e">>)

\* The test with the action lower-cased first, as manage_asset lower-cases its own.
WantsPrefabAnyCase(kwargs, params) ==
    /\ PyStr(Lower(Bound(GameObjectTable, "action", kwargs).v)) = Create
    /\ Truthy(Get(params, "saveAsPrefab", PyNone))

\* action == "create" and params.get("saveAsPrefab")
WantsPrefab(kwargs, params) ==
    /\ Bound(GameObjectTable, "action", kwargs) = Create
    /\ Truthy(Get(params, "saveAsPrefab", PyNone))

\* The check without `or not params["name"]`: an empty name passes.
NameMissingKeyOnly(params) == "name" \notin DOMAIN params

\* "name" not in params or not params["name"]
NameMissing(params) == "name" \notin DOMAIN params \/ ~Truthy(params["name"])

\* f"{prefab_folder}/{params['name']}.prefab"
ConstructedPath(kwargs, params) ==
    Format(Bound(GameObjectTable, "prefabFolder", kwargs)) \o <<"/">> \o Format(params["name"]) \o DotPrefab

\* The path as constructed, separators untouched.
CleanPathUntouched(path) == path

\* constructed_path.replace("\\", "/")
CleanPath(path) == Replace(path, "\\", "/")

\* The suffix test without .lower(): case-sensitive.
ValidSuffixCaseSensitive(path) == EndsWith(path, DotPrefab)

\* params["prefabPath"].lower().endswith(".prefab")
ValidSuffix(path) == EndsWith(Lower(path), DotPrefab)

NameMissingEnvelope ==
    [success |-> PyBool(FALSE),
     message |-> PyStr(<<"Cannot create default prefab path: 'name' parameter is missing.">>)]

InvalidPathEnvelope(params) ==
    [success |-> PyBool(FALSE),
     message |-> PyStr(<<"Invalid prefab_path: '">> \o Format(params["prefabPath"])
                        \o <<"' must end with .prefab">>)]

\* The prefab path logic: either an early return (failed, with its envelope)
\* or the parameters to go on with.
PrefabLogic(kwargs, params) ==
    IF WantsPrefab(kwargs, params)
    THEN IF "prefabPath" \notin DOMAIN params
         THEN IF NameMissing(params)
              THEN [failed |-> TRUE, envelope |-> NameMissingEnvelope, params |-> params]
              ELSE [failed |-> FALSE, envelope |-> EmptyDict,
                    params |-> Put(params, "prefabPath",
                                   PyStr(CleanPath(ConstructedPath(kwargs, params))))]
         ELSE IF ~ValidSuffix(params["prefabPath"].v)
              THEN [failed |-> TRUE, envelope |-> InvalidPathEnvelope(params), params |-> params]
              ELSE [failed |-> FALSE, envelope |-> EmptyDict, params |-> params]
    ELSE [failed |-> FALSE, envelope |-> EmptyDict, params |-> params]

\* params.pop("prefab_folder", None)
PopPrefabFolder(params) == Pop(params, "prefab_folder")

\* Everything manage_gameobject does before it asks for the connection.
GameObjectPrepare(kwargs) ==
    LET r == PrefabLogic(kwargs, GameObjectParams(kwargs))
    IN  IF r.failed THEN r ELSE [r EXCEPT !.params = PopPrefabFolder(r.params)]

\* ------------------------------------------- outcomes of a call: value or raise
NoOutcome == [kind |-> "none", isMap |-> FALSE, map |-> EmptyDict, text |-> <<>>]
Returned(m) == [kind |-> "return", isMap |-> TRUE, map |-> m, text |-> <<>>]
\* a returned value that is no mapping (None)
ReturnedNone == [kind |-> "return", isMap |-> FALSE, map |-> EmptyDict, text |-> <<>>]
Raised(text) == [kind |-> "raise", isMap |-> FALSE, map |-> EmptyDict, text |-> text]

\* str(e) of the AttributeError that response.get raises on None
NoGetText == <<"'NoneType' object has no attribute 'get'">>

\* ------------------------------------------- reply handling of the sync tools
OkText(h) ==
    IF h = "manage_editor" THEN "Editor operation successful." ELSE "GameObject operation successful."

ErrText(h) ==
    IF h = "manage_editor"
    THEN "An unknown error occurred during editor management."
    ELSE "An unknown error occurred during GameObject management."

ExceptPrefix(h) ==
    IF h = "manage_editor" THEN "Python error managing editor: " ELSE "Python error managing GameObject: "

\* Reshape with `response.get("message") or <default>`: a falsy remote message
\* is replaced by the default text.
ReshapeDefaultsFalsyMessage(h, response) ==
    IF Truthy(Get(response, "success", PyNone))
    THEN [success |-> PyBool(TRUE),
          message |-> IF Truthy(Get(response, "message", PyNone))
                      THEN response["message"] ELSE PyStr(<<OkText(h)>>),
          data |-> Get(response, "data", PyNone)]
    ELSE [success |-> PyBool(FALSE),
          message |-> Get(response, "error", PyStr(<<ErrText(h)>>))]

\* Reshape reading the failure text from "message" instead of "error".
ReshapeReadsMessageOnFailure(h, response) ==
    IF Truthy(Get(response, "success", PyNone))
    THEN [success |-> PyBool(TRUE),
          message |-> Get(response, "message", PyStr(<<OkText(h)>>)),
          data |-> Get(response, "data", PyNone)]
    ELSE [success |-> PyBool(FALSE),
          message |-> Get(response, "message", PyStr(<<ErrText(h)>>))]

\* if response.get("success"): ... else: ...
Reshape(h, response) ==
    IF Truthy(Get(response, "success", PyNone))
    THEN [success |-> PyBool(TRUE),
          message |-> Get(response, "message", PyStr(<<OkText(h)>>)),
          data |-> Get(response, "data", PyNone)]
    ELSE [success |-> PyBool(FALSE),
          message |-> Get(response, "error", PyStr(<<ErrText(h)>>))]

\* except Exception as e: return {...}
ExceptEnvelope(h, text) ==
    [success |-> PyBool(FALSE), message |-> PyStr(<<ExceptPrefix(h)>> \o text)]

\* The body without its try/except: a raise reaches the caller.
SyncResultUnguarded(h, o) ==
    IF o.kind = "raise" THEN o
    ELSE IF ~o.isMap THEN Raised(NoGetText)
    ELSE Returned(Reshape(h, o.map))

\* What a sync tool returns once send_command ended with outcome o.
SyncResult(h, o) ==
    IF o.kind = "raise" THEN Returned(ExceptEnvelope(h, o.text))
    ELSE IF ~o.isMap THEN Returned(ExceptEnvelope(h, NoGetText))
    ELSE Returned(Reshape(h, o.map))

\* manage_asset reshaping and guarding its result the way manage_editor does.
AssetResultReshaped(o) == SyncResult("manage_editor", o)

\* What manage_asset hands its caller once the awaited future ended with o:
\* `return result`, and a raise of the future is raised by the await.
AssetResult(o) == o

\* ------------------------------------------------------------ the program
Tools == {"manage_asset", "manage_editor", "manage_gameobject"}
\* registered as plain `def`: the host calls them on the event-loop thread
SyncTools == {"manage_editor", "manage_gameobject"}

VARIABLES
    handler,   \* handler[c]: the tool invocation c calls ("none" before it is made)
    kwargs,    \* kwargs[c]: the keyword arguments the caller passed
    pc,        \* pc[c]: "idle", "pending" (scheduled, body not begun), "queued"
               \* (handed to the executor), "sending" (inside send_command),
               \* "resuming" (future done, coroutine not yet resumed), "done"
    connection, \* connection[c]: how get_unity_connection() ended for c
    sent,      \* sent[c]: the send_command calls made for c, in order
    reply,     \* reply[c]: how send_command ended for c
    result,    \* result[c]: what the caller of c got: a value or a raise
    loop,      \* the invocation the event-loop thread is inside, 0 when free
    began,     \* history: began[c] = the invocations whose body began while c
               \* was waiting for send_command
    overtook   \* history: those of began[c] that also ended while c still waited

vars == <<handler, kwargs, pc, connection, sent, reply, result, loop, began, overtook>>

\* c has handed its command over and send_command has not come back to it.
Waiting(c) == pc[c] \in {"queued", "sending"}

Init ==
    /\ handler = [c \in Calls |-> "none"]
    /\ kwargs = [c \in Calls |-> EmptyDict]
    /\ pc = [c \in Calls |-> "idle"]
    /\ connection = [c \in Calls |-> NoOutcome]
    /\ sent = [c \in Calls |-> <<>>]
    /\ reply = [c \in Calls |-> NoOutcome]
    /\ result = [c \in Calls |-> NoOutcome]
    /\ loop = 0
    /\ began = [c \in Calls |-> {}]
    /\ overtook = [c \in Calls |-> {}]

\* The body of c begins / ends: the history of the invocations waiting meanwhile.
NoteBegin(c) == [d \in Calls |-> IF d # c /\ Waiting(d) THEN began[d] \cup {c} ELSE began[d]]
NoteEnd(c, bg) == [d \in Calls |-> IF d # c /\ Waiting(d) /\ c \in bg[d] THEN overtook[d] \cup {c} ELSE overtook[d]]

\* The caller invokes tool h with keyword arguments kw.
Invoke(c, h, kw) ==
    /\ pc[c] = "idle"
    /\ handler' = [handler EXCEPT ![c] = h]
    /\ kwargs' = [kwargs EXCEPT ![c] = kw]
    /\ pc' = [pc EXCEPT ![c] = "pending"]
    /\ UNCHANGED <<connection, sent, reply, result, loop, began, overtook>>

\* What a sync tool does up to get_unity_connection().
SyncPrepare(h, kw) ==
    IF h = "manage_editor"
    THEN [failed |-> FALSE, envelope |-> EmptyDict, params |-> EditorParams(kw)]
    ELSE GameObjectPrepare(kw)

\* The call returns without reaching send_command.
EndAtOnce(c, conn, out) ==
    /\ connection' = [connection EXCEPT ![c] = conn]
    /\ result' = [result EXCEPT ![c] = out]
    /\ pc' = [pc EXCEPT ![c] = "done"]
    /\ began' = NoteBegin(c)
    /\ overtook' = NoteEnd(c, NoteBegin(c))
    /\ UNCHANGED <<handler, kwargs, sent, reply, loop>>

\* send_command is entered on the thread that runs the body: the event loop's.
EnterSendOnLoop(c, conn, params) ==
    /\ connection' = [connection EXCEPT ![c] = conn]
    /\ sent' = [sent EXCEPT ![c] = Append(@, [command |-> handler[c], params |-> params])]
    /\ pc' = [pc EXCEPT ![c] = "sending"]
    /\ loop' = c
    /\ began' = NoteBegin(c)
    /\ UNCHANGED <<handler, kwargs, reply, result, overtook>>

\* manage_editor / manage_gameobject from entry to the send_command call (or to
\* an early return); conn is how get_unity_connection() ends.
StartSync(c, conn) ==
    /\ pc[c] = "pending"
    /\ handler[c] \in SyncTools
    /\ loop = 0
    /\ LET prep == SyncPrepare(handler[c], kwargs[c])
       IN  IF prep.failed
           THEN EndAtOnce(c, NoOutcome, Returned(prep.envelope))
           ELSE IF conn.kind = "raise"
                THEN EndAtOnce(c, conn, Returned(ExceptEnvelope(handler[c], conn.text)))
                ELSE EnterSendOnLoop(c, conn, prep.params)

\* The sync tool sending its command once more after send_command raised.
SendReturnsRetries(c, o) ==
    /\ pc[c] = "sending"
    /\ handler[c] \in SyncTools
    /\ reply' = [reply EXCEPT ![c] = o]
    /\ IF o.kind = "raise" /\ Len(sent[c]) = 1
       THEN /\ sent' = [sent EXCEPT ![c] = Append(@, sent[c][1])]
            /\ UNCHANGED <<result, pc, loop, overtook>>
       ELSE /\ result' = [result EXCEPT ![c] = SyncResult(handler[c], o)]
            /\ pc' = [pc EXCEPT ![c] = "done"]
            /\ loop' = 0
            /\ overtook' = NoteEnd(c, began)
            /\ UNCHANGED sent
    /\ UNCHANGED <<handler, kwargs, connection, began>>

\* send_command ends with outcome o and the sync tool returns.
SendReturns(c, o) ==
    /\ pc[c] = "sending"
    /\ handler[c] \in SyncTools
    /\ reply' = [reply EXCEPT ![c] = o]
    /\ result' = [result EXCEPT ![c] = SyncResult(handler[c], o)]
    /\ pc' = [pc EXCEPT ![c] = "done"]
    /\ loop' = 0
    /\ overtook' = NoteEnd(c, began)
    /\ UNCHANGED <<handler, kwargs, connection, sent, began>>

\* send_command awaited without the executor: the event-loop thread stays in c.
OffloadHoldsLoop(c, conn) ==
    /\ connection' = [connection EXCEPT ![c] = conn]
    /\ pc' = [pc EXCEPT ![c] = "queued"]
    /\ loop' = c
    /\ began' = NoteBegin(c)
    /\ UNCHANGED <<handler, kwargs, sent, reply, result, overtook>>

\* await loop.run_in_executor(None, ...): the coroutine is suspended and the
\* event-loop thread is free.
Offload(c, conn) ==
    /\ connection' = [connection EXCEPT ![c] = conn]
    /\ pc' = [pc EXCEPT ![c] = "queued"]
    /\ began' = NoteBegin(c)
    /\ UNCHANGED <<handler, kwargs, sent, reply, result, loop, overtook>>

\* manage_asset from entry to the await.
StartAsset(c, conn) ==
    /\ pc[c] = "pending"
    /\ handler[c] = "manage_asset"
    /\ loop = 0
    /\ IF conn.kind = "raise"
       THEN EndAtOnce(c, conn, Raised(conn.text))
       ELSE Offload(c, conn)

\* A free thread of the executor calls connection.send_command("manage_asset", params_dict).
WorkerTakes(c) ==
    /\ pc[c] = "queued"
    /\ Cardinality({d \in Calls : handler[d] = "manage_asset" /\ pc[d] = "sending"}) < MaxWorkers
    /\ sent' = [sent EXCEPT ![c] = Append(@, [command |-> "manage_asset", params |-> AssetParams(kwargs[c])])]
    /\ pc' = [pc EXCEPT ![c] = "sending"]
    /\ UNCHANGED <<handler, kwargs, connection, reply, result, loop, began, overtook>>

\* send_command ends on the worker thread: the future is done.
WorkerReturns(c, o) ==
    /\ pc[c] = "sending"
    /\ handler[c] = "manage_asset"
    /\ reply' = [reply EXCEPT ![c] = o]
    /\ pc' = [pc EXCEPT ![c] = "resuming"]
    /\ UNCHANGED <<handler, kwargs, connection, sent, result, loop, began, overtook>>

\* The event loop resumes the coroutine: `return result`.
ResumeAsset(c) ==
    /\ pc[c] = "resuming"
    /\ loop = 0
    /\ result' = [result EXCEPT ![c] = AssetResult(reply[c])]
    /\ pc' = [pc EXCEPT ![c] = "done"]
    /\ overtook' = NoteEnd(c, began)
    /\ UNCHANGED <<handler, kwargs, connection, sent, reply, loop, began>>

\* ------------------------------------------------------------- the inputs
\* A choice for one parameter: Omitted (the caller does not pass it) or a value.
Omitted == [t |-> "omitted", v |-> <<>>]
Kw(param, choice) == IF choice = Omitted THEN EmptyDict ELSE param :> choice

Foo == <<"F", "o", "o">>
Find == <<"f", "i", "n", "d">>
SomeDict == PyDict(<<"shader">>)
SomeList == PyList(<<"1", "2", "3">>)

\* manage_gameobject calls around the prefab path logic.
PrefabCalls ==
    { Kw("action", a) @@ Kw("name", n) @@ Kw("save_as_prefab", s)
        @@ Kw("prefab_path", p) @@ Kw("prefab_folder", f) :
        a \in {Create, PyStr(<<"C", "r", "e", "a", "t", "e">>), PyStr(Find)},
        n \in {Omitted, PyNone, PyStr(<<>>), PyStr(Foo), PyStr(<<"A", "\\", "b">>)},
        s \in {Omitted, PyNone, PyBool(FALSE), PyBool(TRUE)},
        p \in {Omitted, PyNone, PyStr(<<>>),
               PyStr(<<"a">> \o DotPrefab),
               PyStr(<<"a", ".", "P", "R", "E", "F", "A", "B">>),
               PyStr(<<"A", "s", "s", "e", "t", "s", "/", "F", "o", "o", ".", "m", "a", "t">>)},
        f \in {Omitted, PyNone, PyStr(<<"M", "y", "\\", "D", "i", "r">>)} }

\* manage_gameobject calls that pass one of the other parameters, as None or as a value.
OtherValue ==
    [target |-> PyStr(<<"C", "u", "b", "e">>), search_method |-> PyStr(<<"b", "y", "_", "i", "d">>),
     tag |-> PyStr(<<"T">>), parent |-> PyStr(<<"P">>), position |-> SomeList,
     rotation |-> SomeList, scale |-> SomeList, components_to_add |-> SomeList,
     primitive_type |-> PyStr(<<"C", "u", "b", "e">>), set_active |-> PyBool(FALSE),
     layer |-> PyStr(<<"L">>), components_to_remove |-> SomeList,
     component_properties |-> SomeDict, search_term |-> PyStr(<<"x">>),
     find_all |-> PyBool(TRUE), search_in_children |-> PyBool(TRUE),
     search_inactive |-> PyBool(FALSE), component_name |-> PyStr(<<"R">>)]

OtherCalls ==
    UNION { { Kw("action", PyStr(Find)) @@ Kw(k, x) : x \in {PyNone, OtherValue[k]} } :
            k \in DOMAIN OtherValue }

GameObjectCalls == PrefabCalls \cup OtherCalls

EditorCalls ==
    { Kw("action", a) @@ Kw("wait_for_completion", w) @@ Kw("tool_name", t)
        @@ Kw("tag_name", g) @@ Kw("layer_name", l) :
        a \in {PyStr(<<"p", "l", "a", "y">>), PyStr(<<"A", "d", "d", "_", "T", "a", "g">>)},
        w \in {Omitted, PyNone, PyBool(FALSE), PyBool(TRUE)},
        t \in {Omitted, PyNone, PyStr(<<"M", "o", "v", "e">>)},
        g \in {Omitted, PyNone, PyStr(<<"T">>)},
        l \in {Omitted, PyNone, PyStr(<<"L">>)} }

AssetCoreCalls ==
    { Kw("action", a) @@ Kw("path", PyStr(<<"A", "/", "m", ".", "m", "a", "t">>))
        @@ Kw("properties", q) @@ Kw("generate_preview", g) @@ Kw("asset_type", t)
        @@ Kw("page_size", z) :
        a \in {PyStr(<<"C", "r", "e", "a", "t", "e">>), PyStr(<<"s", "e", "a", "r", "c", "h">>)},
        q \in {Omitted, PyNone, PyDict(<<>>), SomeDict},
        g \in {Omitted, PyNone, PyBool(FALSE), PyBool(TRUE)},
        t \in {Omitted, PyNone, PyStr(<<"M", "a", "t">>)},
        z \in {Omitted, PyNone, PyInt(<<"0">>)} }

AssetOtherValue ==
    [destination |-> PyStr(<<"D">>), search_pattern |-> PyStr(<<"*">>),
     filter_type |-> PyStr(<<"t">>), filter_date_after |-> PyStr(<<"2", "0">>),
     page_number |-> PyInt(<<"1">>)]

AssetOtherCalls ==
    UNION { { Kw("action", PyStr(Find)) @@ Kw("path", PyStr(<<"A">>)) @@ Kw(k, x) :
              x \in {PyNone, AssetOtherValue[k]} } :
            k \in DOMAIN AssetOtherValue }

AssetCalls == AssetCoreCalls \cup AssetOtherCalls

Invocations ==
    {[handler |-> "manage_gameobject", kwargs |-> k] : k \in GameObjectCalls}
    \cup {[handler |-> "manage_editor", kwargs |-> k] : k \in EditorCalls}
    \cup {[handler |-> "manage_asset", kwargs |-> k] : k \in AssetCalls}

ExceptionTexts == {<<"X">>, <<"t", "i", "m", "e", "d", " ", "o", "u", "t">>}

\* How get_unity_connection() ends: with the connection, or raising.
Connects == {Returned(EmptyDict)} \cup {Raised(x) : x \in ExceptionTexts}

\* The mappings send_command may return.
ReplyMaps ==
    { Kw("success", s) @@ Kw("message", m) @@ Kw("data", d) @@ Kw("error", e) :
        s \in {Omitted, PyBool(FALSE), PyBool(TRUE), PyStr(<<"n", "o">>)},
        m \in {Omitted, PyStr(<<"o", "k">>)},
        d \in {Omitted, SomeDict},
        e \in {Omitted, PyStr(<<"b", "o", "o", "m">>)} }
    \cup { Kw("success", PyNone) @@ Kw("error", PyStr(<<"b", "o", "o", "m">>)),
           Kw("success", PyBool(TRUE)) @@ Kw("message", PyNone),
           Kw("success", PyBool(FALSE)) @@ Kw("error", PyNone),
           Kw("success", PyBool(TRUE)) @@ Kw("message", PyStr(<<"o", "k">>)) @@ Kw("id", PyInt(<<"7">>)) }

\* How send_command ends: a mapping, a value that is no mapping, or a raise.
Outcomes == {Returned(m) : m \in ReplyMaps} \cup {ReturnedNone} \cup {Raised(x) : x \in ExceptionTexts}

\* ------------------------------------------------- one client, one call
Step(c, invs, conns, outs) ==
    \/ \E i \in invs : Invoke(c, i.handler, i.kwargs)
    \/ \E conn \in conns : StartSync(c, conn)
    \/ \E o \in outs : SendReturns(c, o)
    \/ \E conn \in conns : StartAsset(c, conn)
    \/ WorkerTakes(c)
    \/ \E o \in outs : WorkerReturns(c, o)
    \/ ResumeAsset(c)

Next == Step(1, Invocations, Connects, Outcomes)

Spec == Init /\ [][Next]_vars

\* ------------------------------------- several calls on one event loop
LoopInvocations ==
    {[handler |-> "manage_asset", kwargs |-> Kw("action", PyStr(Find)) @@ Kw("path", PyStr(<<"A">>))],
     [handler |-> "manage_editor", kwargs |-> Kw("action", PyStr(<<"p", "l", "a", "y">>))],
     [handler |-> "manage_gameobject", kwargs |-> Kw("action", PyStr(Find))],
     [handler |-> "manage_gameobject", kwargs |-> Kw("action", Create) @@ Kw("save_as_prefab", PyBool(TRUE))]}

LoopConnects == {Returned(EmptyDict), Raised(<<"X">>)}

LoopOutcomes == {Returned(Kw("success", PyBool(TRUE))), Raised(<<"X">>)}

NextLoop == \E c \in Calls : Step(c, LoopInvocations, LoopConnects, LoopOutcomes)

SpecLoop == Init /\ [][NextLoop]_vars

\* ================================================================ claims
Table(h) ==
    CASE h = "manage_asset" -> AssetTable
      [] h = "manage_editor" -> EditorTable
      [] OTHER -> GameObjectTable

\* The send_command calls made so far, as <<invocation, index>>.
SentCalls == UNION {{<<c, i>> : i \in 1..Len(sent[c])} : c \in Calls}
ParamsOf(x) == sent[x[1]][x[2]].params

\* The wire names of the parameters the caller passed with a value other than None.
SuppliedKeys(c) ==
    {w \in DOMAIN Table(handler[c]) :
        /\ Table(handler[c])[w].param \in DOMAIN kwargs[c]
        /\ kwargs[c][Table(handler[c])[w].param] # PyNone}

\* The wire names of the parameters whose value in the body (the argument, else
\* the declared default) is not None.
BoundKeys(c) ==
    {w \in DOMAIN Table(handler[c]) :
        (IF Table(handler[c])[w].param \in DOMAIN kwargs[c]
         THEN kwargs[c][Table(handler[c])[w].param]
         ELSE Table(handler[c])[w].default) # PyNone}

DerivedKeys(c) == IF handler[c] = "manage_gameobject" THEN {"prefabPath"} ELSE {}

\* C1, as stated: the keys handed to send_command are among 'action', the wire
\* names of the parameters the caller passed with a value, and the derived
\* 'prefabPath' of manage_gameobject.
C1_OnlySuppliedKeys ==
    \A x \in SentCalls :
        DOMAIN ParamsOf(x) \subseteq {"action"} \cup SuppliedKeys(x[1]) \cup DerivedKeys(x[1])

\* C1, amended: no entry handed to send_command holds None, and the keys are
\* among 'action', the wire names of the parameters whose argument, or declared
\* default when not passed, is not None, 'properties' of manage_asset (None
\* becomes {}), and the derived 'prefabPath' of manage_gameobject.
C1_NoNoneEntries ==
    \A x \in SentCalls :
        /\ \A k \in DOMAIN ParamsOf(x) : ParamsOf(x)[k] # PyNone
        /\ DOMAIN ParamsOf(x) \subseteq
              {"action"} \cup BoundKeys(x[1]) \cup DerivedKeys(x[1])
              \cup (IF handler[x[1]] = "manage_asset" THEN {"properties"} ELSE {})

\* A call with a parameter passed as None and another left out has reached send_command.
C1_Witness ==
    \E x \in SentCalls :
        /\ handler[x[1]] = "manage_editor"
        /\ "tool_name" \in DOMAIN kwargs[x[1]] /\ kwargs[x[1]]["tool_name"] = PyNone
        /\ "tag_name" \notin DOMAIN kwargs[x[1]]
        /\ "layer_name" \in DOMAIN kwargs[x[1]] /\ kwargs[x[1]]["layer_name"] # PyNone
        /\ DOMAIN ParamsOf(x) = {"action", "layerName"}

\* C2: no manage_gameobject command carries the prefab folder.
C2_NoPrefabFolderSent ==
    \A x \in SentCalls :
        handler[x[1]] = "manage_gameobject" =>
            DOMAIN ParamsOf(x) \cap {"prefabFolder", "prefab_folder"} = {}

\* The arguments of invocation c as the caller passed them.
Arg(c, param) == IF param \in DOMAIN kwargs[c] THEN kwargs[c][param] ELSE Omitted
IsCreate(c) == Arg(c, "action") = PyStr(<<"c", "r", "e", "a", "t", "e">>)
SavesPrefab(c) == Arg(c, "save_as_prefab") = PyBool(TRUE)
NoPrefabPath(c) == Arg(c, "prefab_path") \in {Omitted, PyNone}
\* create, save_as_prefab true, no prefab_path
DefaultPathCase(c) ==
    /\ handler[c] = "manage_gameobject"
    /\ IsCreate(c) /\ SavesPrefab(c) /\ NoPrefabPath(c)

\* The folder text the caller chose: the argument, "Assets/Prefabs" when not passed.
FolderText(c) ==
    IF Arg(c, "prefab_folder") = Omitted
    THEN <<"A", "s", "s", "e", "t", "s", "/", "P", "r", "e", "f", "a", "b", "s">>
    ELSE Arg(c, "prefab_folder").v

Joined(c) == FolderText(c) \o <<"/">> \o Arg(c, "name").v \o <<".", "p", "r", "e", "f", "a", "b">>

\* C3: create, save_as_prefab true, a non-empty name, no prefab_path: the
\* 'prefabPath' sent is folder + "/" + name + ".prefab", each backslash turned
\* into a slash; "Assets/Prefabs/Foo.prefab" for name "Foo" and the default folder.
C3_ConstructedPrefabPath ==
    \A x \in SentCalls :
        LET c == x[1] IN
        (/\ DefaultPathCase(c)
         /\ Arg(c, "name").t = "str" /\ Arg(c, "name").v # <<>>
         /\ Arg(c, "prefab_folder").t \in {"omitted", "str"})
        => /\ "prefabPath" \in DOMAIN ParamsOf(x)
           /\ ParamsOf(x)["prefabPath"].t = "str"
           /\ Len(ParamsOf(x)["prefabPath"].v) = Len(Joined(c))
           /\ \A i \in 1..Len(Joined(c)) :
                 ParamsOf(x)["prefabPath"].v[i] = (IF Joined(c)[i] = "\\" THEN "/" ELSE Joined(c)[i])
           /\ (Arg(c, "name").v = <<"F", "o", "o">> /\ Arg(c, "prefab_folder") = Omitted)
                 => Text(ParamsOf(x)["prefabPath"].v) = "Assets/Prefabs/Foo.prefab"

\* A path was constructed from a folder and a name that both hold a backslash.
C3_Witness ==
    \E x \in SentCalls :
        /\ DefaultPathCase(x[1])
        /\ Arg(x[1], "name") = PyStr(<<"A", "\\", "b">>)
        /\ Arg(x[1], "prefab_folder") = PyStr(<<"M", "y", "\\", "D", "i", "r">>)
        /\ Text(ParamsOf(x)["prefabPath"].v) = "My/Dir/A/b.prefab"

NameMissingText == "Cannot create default prefab path: 'name' parameter is missing."

\* C4: create, save_as_prefab true, no prefab_path, name absent or empty: the
\* call returns {success: false, message: <name is missing>} and send_command
\* is never invoked.
C4_MissingNameFails ==
    \A c \in Calls :
        (DefaultPathCase(c) /\ Arg(c, "name") \in {Omitted, PyNone, PyStr(<<>>)})
        => /\ sent[c] = <<>>
           /\ pc[c] \in {"idle", "pending", "done"}
           /\ pc[c] = "done" =>
                 /\ result[c].kind = "return" /\ result[c].isMap
                 /\ DOMAIN result[c].map = {"success", "message"}
                 /\ result[c].map["success"] = PyBool(FALSE)
                 /\ result[c].map["message"].t = "str"
                 /\ Text(result[c].map["message"].v) = NameMissingText

\* A call with the empty name has returned.
C4_Witness ==
    \E c \in Calls :
        /\ DefaultPathCase(c) /\ Arg(c, "name") = PyStr(<<>>)
        /\ pc[c] = "done"

\* The characters that lower() turns into ch.
Cased(ch) == {ch} \cup {u \in DOMAIN UpperToLower : UpperToLower[u] = ch}

\* path ends in ".prefab", letters in either case.
HasPrefabSuffix(path) ==
    /\ Len(path) >= 7
    /\ \A i \in 1..7 :
          path[Len(path) - 7 + i] \in Cased(<<".", "p", "r", "e", "f", "a", "b">>[i])

ExplicitPathCase(c) ==
    /\ handler[c] = "manage_gameobject"
    /\ IsCreate(c) /\ SavesPrefab(c)
    /\ Arg(c, "prefab_path").t = "str"

InvalidPathText(c) ==
    "Invalid prefab_path: '" \o Text(Arg(c, "prefab_path").v) \o "' must end with .prefab"

IsFailureWith(out, text) ==
    /\ out.kind = "return" /\ out.isMap
    /\ DOMAIN out.map = {"success", "message"}
    /\ out.map["success"] = PyBool(FALSE)
    /\ out.map["message"].t = "str"
    /\ Text(out.map["message"].v) = text

\* C5: create, save_as_prefab true, an explicit prefab_path.  Without the
\* suffix ".prefab" (any letter case) the call returns success false with a
\* message naming the path and send_command is never invoked; with it no
\* validation failure is returned and the path is sent unchanged.
C5_ExplicitPathSuffix ==
    \A c \in Calls :
        ExplicitPathCase(c) =>
            IF HasPrefabSuffix(Arg(c, "prefab_path").v)
            THEN /\ \A i \in 1..Len(sent[c]) : sent[c][i].params["prefabPath"] = Arg(c, "prefab_path")
                 /\ pc[c] = "done" =>
                       /\ ~IsFailureWith(result[c], InvalidPathText(c))
                       /\ ~IsFailureWith(result[c], NameMissingText)
                       /\ connection[c].kind # "none"
            ELSE /\ sent[c] = <<>>
                 /\ pc[c] \in {"idle", "pending", "done"}
                 /\ pc[c] = "done" => IsFailureWith(result[c], InvalidPathText(c))

\* A path ending in ".PREFAB" passed the validation and was sent as it is.
C5_Witness ==
    \E c \in Calls :
        /\ ExplicitPathCase(c)
        /\ Arg(c, "prefab_path") = PyStr(<<"a", ".", "P", "R", "E", "F", "A", "B">>)
        /\ Len(sent[c]) = 1
        /\ Text(sent[c][1].params["prefabPath"].v) = "a.PREFAB"
        /\ pc[c] = "done"

\* A sync tool has returned after send_command handed it a mapping.
SyncDoneWithMap(c) ==
    /\ handler[c] \in SyncTools
    /\ pc[c] = "done"
    /\ reply[c].kind = "return" /\ reply[c].isMap

DefaultSuccessText(c) ==
    IF handler[c] = "manage_editor" THEN "Editor operation successful." ELSE "GameObject operation successful."

FallbackErrorText(c) ==
    IF handler[c] = "manage_editor"
    THEN "An unknown error occurred during editor management."
    ELSE "An unknown error occurred during GameObject management."

\* C6: manage_editor / manage_gameobject, remote 'success' true: the call
\* returns exactly {success: true, message, data} with the remote message and
\* data unchanged; the default success text only when the remote mapping has
\* no 'message' key (and None for data when it has no 'data' key).
C6_SuccessCarriedOver ==
    \A c \in Calls :
        (/\ SyncDoneWithMap(c)
         /\ "success" \in DOMAIN reply[c].map
         /\ reply[c].map["success"] = PyBool(TRUE))
        => /\ result[c].kind = "return" /\ result[c].isMap
           /\ DOMAIN result[c].map = {"success", "message", "data"}
           /\ result[c].map["success"] = PyBool(TRUE)
           /\ IF "message" \in DOMAIN reply[c].map
              THEN result[c].map["message"] = reply[c].map["message"]
              ELSE /\ result[c].map["message"].t = "str"
                   /\ Text(result[c].map["message"].v) = DefaultSuccessText(c)
           /\ IF "data" \in DOMAIN reply[c].map
              THEN result[c].map["data"] = reply[c].map["data"]
              ELSE result[c].map["data"] = PyNone

\* {"success": true, "data": {...}, "message": "ok"} came back and was returned.
C6_Witness ==
    \E c \in Calls :
        /\ SyncDoneWithMap(c)
        /\ DOMAIN reply[c].map = {"success", "message", "data"}
        /\ reply[c].map["success"] = PyBool(TRUE)
        /\ Text(result[c].map["message"].v) = "ok"
        /\ result[c].map["data"] = reply[c].map["data"]

MetException(c) ==
    \/ connection[c].kind = "raise"
    \/ reply[c].kind = "raise"
    \/ reply[c].kind = "return" /\ ~reply[c].isMap

ExceptionText(c) ==
    IF connection[c].kind = "raise" THEN Text(connection[c].text)
    ELSE IF reply[c].kind = "raise" THEN Text(reply[c].text)
    ELSE "'NoneType' object has no attribute 'get'"

Context(c) ==
    IF handler[c] = "manage_editor" THEN "Python error managing editor" ELSE "Python error managing GameObject"

\* Every ended sync call ended in a returned envelope with a boolean 'success'
\* and a 'message'; none raised.
EndsInEnvelope(c) ==
    /\ result[c].kind # "raise"
    /\ pc[c] = "done" =>
          /\ result[c].kind = "return" /\ result[c].isMap
          /\ {"success", "message"} \subseteq DOMAIN result[c].map
          /\ result[c].map["success"].t = "bool"

C9_AssetPassesThrough ==
    \A c \in Calls :
        (handler[c] = "manage_asset" /\ pc[c] = "done" /\ reply[c].kind # "none")
        => /\ Len(sent[c]) = 1
           /\ sent[c][1].command = "manage_asset"
           /\ result[c].kind = reply[c].kind
           /\ result[c].isMap = reply[c].isMap
           /\ DOMAIN result[c].map = DOMAIN reply[c].map
           /\ \A k \in DOMAIN reply[c].map : result[c].map[k] = reply[c].map[k]
           /\ result[c].text = reply[c].text

\* A failed reply came back to manage_asset and its 'error' stayed under 'error'.
C9_Witness ==
    \E c \in Calls :
        /\ handler[c] = "manage_asset" /\ pc[c] = "done"
        /\ reply[c].kind = "return"
        /\ DOMAIN result[c].map = {"success", "error"}
        /\ result[c].map["success"] = PyBool(FALSE)
        /\ Text(result[c].map["error"].v) = "boom"

\* A step in which the event-loop thread runs invocation d: it begins d's
\* body or resumes d's coroutine.
LoopRuns(d) == pc[d] \in {"pending", "resuming"} /\ pc'[d] # pc[d]

\* C10: a manage_asset call waiting for send_command does not hold the
\* event-loop thread; a manage_editor / manage_gameobject call inside
\* send_command holds it, no other invocation's body began meanwhile, and the
\* thread runs no other invocation until send_command has returned.
C10_OnlyAssetOffloads ==
    /\ [](\A c \in Calls : (handler[c] = "manage_asset" /\ Waiting(c)) => loop # c)
    /\ [](\A c \in Calls :
            handler[c] \in SyncTools =>
                /\ pc[c] = "sending" => loop = c
                /\ began[c] = {} /\ overtook[c] = {})
    /\ [][\A c \in Calls :
            (handler[c] \in SyncTools /\ pc[c] = "sending") =>
                \A d \in Calls \ {c} : ~LoopRuns(d)]_vars

\* While a manage_asset call was inside send_command another invocation began
\* its body, went through send_command and returned.
C10_Witness ==
    \E c \in Calls :
        /\ handler[c] = "manage_asset" /\ pc[c] = "sending"
        /\ \E d \in overtook[c] : pc[d] = "done" /\ Len(sent[d]) = 1

\* The call fails manage_gameobject's own validation: create with
\* save_as_prefab true and either no prefab_path and no usable name, or a
\* prefab_path without the ".prefab" suffix.
LocallyInvalid(c) ==
    /\ handler[c] = "manage_gameobject"
    /\ IsCreate(c) /\ SavesPrefab(c)
    /\ \/ NoPrefabPath(c) /\ Arg(c, "name") \in {Omitted, PyNone, PyStr(<<>>)}
       \/ Arg(c, "prefab_path").t = "str" /\ ~HasPrefabSuffix(Arg(c, "prefab_path").v)

\* At no time more than one send_command call, each under the tool's own
\* name, and none for a call that fails the local validation.
SendsAtMostOnce(c) ==
    /\ Len(sent[c]) <= 1
    /\ \A i \in 1..Len(sent[c]) : sent[c][i].command = handler[c]
    /\ LocallyInvalid(c) => sent[c] = <<>>

\* C11, as stated: every invocation calls send_command at most once, under
\* the tool's own name: not at all on a local validation failure, and exactly
\* once in every call without one, also when the reply was a failure or a raise.
C11_OnceUnlessInvalid ==
    \A c \in Calls :
        handler[c] \in Tools =>
            /\ SendsAtMostOnce(c)
            /\ (pc[c] = "done" /\ ~LocallyInvalid(c)) => Len(sent[c]) = 1

\* C11, amended: exactly once in every call without a local validation
\* failure in which get_unity_connection() returned a connection; not at all
\* when get_unity_connection() raised.
C11_OnceWhenConnected ==
    \A c \in Calls :
        handler[c] \in Tools =>
            /\ SendsAtMostOnce(c)
            /\ (pc[c] = "done" /\ ~LocallyInvalid(c)) =>
                  Len(sent[c]) = (IF connection[c].kind = "raise" THEN 0 ELSE 1)

\* send_command raised inside a sync tool; the call returned having sent once.
C11_Witness ==
    \E c \in Calls :
        /\ handler[c] \in SyncTools /\ pc[c] = "done"
        /\ reply[c].kind = "raise"
        /\ Len(sent[c]) = 1 /\ sent[c][1].command = handler[c]

\* A manage_gameobject call outside the prefab path logic: action other than
\* exactly "create", or save_as_prefab false, None or not passed.
OutsidePrefabLogic(c) ==
    /\ handler[c] = "manage_gameobject"
    /\ ~(IsCreate(c) /\ SavesPrefab(c))

\* C12: outside action "create" (case-sensitive; manage_gameobject sends the
\* action as passed, manage_asset lower-cased) with save_as_prefab truthy,
\* manage_gameobject returns no local validation failure, derives no
\* 'prefabPath', and sends a supplied prefab_path unchanged, with or without
\* the ".prefab" suffix.
C12_PrefabLogicOnlyOnCreate ==
    /\ \A c \in Calls :
          OutsidePrefabLogic(c) =>
              /\ pc[c] = "done" =>
                    /\ connection[c].kind # "none"
                    /\ connection[c].kind = "return" => Len(sent[c]) = 1
                    /\ ~IsFailureWith(result[c], NameMissingText)
                    /\ Arg(c, "prefab_path").t = "str" => ~IsFailureWith(result[c], InvalidPathText(c))
              /\ \A i \in 1..Len(sent[c]) :
                    /\ sent[c][i].params["action"] = Arg(c, "action")
                    /\ "prefabPath" \in DOMAIN sent[c][i].params <=> ~NoPrefabPath(c)
                    /\ ~NoPrefabPath(c) => sent[c][i].params["prefabPath"] = Arg(c, "prefab_path")
    /\ \A c \in Calls :
          (handler[c] = "manage_asset" /\ Arg(c, "action") = PyStr(<<"C", "r", "e", "a", "t", "e">>)) =>
              \A i \in 1..Len(sent[c]) : Text(sent[c][i].params["action"].v) = "create"

\* Action "Create" with save_as_prefab true and a path ending in ".mat" went
\* through: the path was sent as passed and the call returned.
C12_Witness ==
    \E c \in Calls :
        /\ handler[c] = "manage_gameobject" /\ pc[c] = "done"
        /\ Arg(c, "action") = PyStr(<<"C", "r", "e", "a", "t", "e">>)
        /\ SavesPrefab(c)
        /\ Len(sent[c]) = 1
        /\ Text(sent[c][1].params["action"].v) = "Create"
        /\ "prefabPath" \in DOMAIN sent[c][1].params
        /\ Text(sent[c][1].params["prefabPath"].v) = "Assets/Foo.mat"

====
